---- MODULE Spec2Model ----
(***************************************************************************)
(* The conversations store of src/lib/store-chats.ts (zustand store        *)
(* useChatStore and the hooks built on it) as a state machine.             *)
(*                                                                         *)
(* A conversation or a message is a record with the fields of DConversation*)
(* and DMessage.  An optional field that is not set (cacheTokensCount?)    *)
(* holds Absent, a null timestamp holds Null.  Every conversation record   *)
(* carries a field ref, the identity of the JavaScript object: an object   *)
(* literal evaluated by a handler gets a ref no live object has, an object *)
(* that a handler returns as it found it keeps its ref.                    *)
(***************************************************************************)
EXTENDS Integers, Sequences, FiniteSets, TLC

VARIABLES
    conversations,          \* state.conversations
    activeConversationId,   \* state.activeConversationId
    now,                    \* the value Date.now() returns; one handler call reads one value
    boundId,                \* activeConversation.id in the closures useActiveConfiguration returned last
    orphaned,               \* the active conversation was deleted or reset away, and
                            \* setActiveConversationId has not been called since
    added,                  \* conversations added so far by the c1..cn scenario
    ops,                    \* history: the number of store operations called so far
    lastOp,                 \* history: the last store operation and its arguments
    prev                    \* history: the store content before the last operation

vars == <<conversations, activeConversationId, now, boundId, orphaned, added, ops, lastOp, prev>>

----------------------------------------------------------------------------
(* Bounds of the model *)

\* store operations in one run
MaxOps == 3
\* the largest value Date.now() takes
MaxClock == 1
\* conversations the scenario c1, c2, ... adds
MaxAdds == 25

----------------------------------------------------------------------------
(* Values *)

\* cacheTokensCount?: number -- the field is not set (undefined)
Absent == -1

\* updated: number | null, avatar: string | null
Null == -2

\* slice(0, 19): the entries of the previous list that addConversation keeps
KeepPrevious == 19

\* Date.now() when the module is loaded and the two constant conversations are made
LoadTime == 0

\* identities of the two conversation objects made when the module is loaded
DefaultRef == 0
ErrorRef == 1

\* imported from '@/lib/data'; an opaque model id
defaultChatModelId == "defaultChatModelId"

Min(a, b) == IF a <= b THEN a ELSE b

\* x || 0 for an optional number
OrZero(x) == IF x = Absent THEN 0 ELSE x

\* Array.prototype.slice(0, n)
SliceFromStart(s, n) == SubSeq(s, 1, Min(n, Len(s)))

\* messages.reduce((sum, message) => sum + (message.cacheTokensCount || 0), 0)
RECURSIVE SumTokens(_)
SumTokens(messages) ==
    IF messages = <<>> THEN 0
    ELSE SumTokens(SubSeq(messages, 1, Len(messages) - 1))
         + OrZero(messages[Len(messages)].cacheTokensCount)

\* { ...message, ...updatedMessage }: the fields of the second override the first's
Spread(object, partial) ==
    [f \in (DOMAIN object) \cup (DOMAIN partial) |->
        IF f \in DOMAIN partial THEN partial[f] ELSE object[f]]

\* the i-th (from 1) object identity that no conversation of convs and neither
\* constant conversation has
NewRef(convs, i) ==
    LET used == {convs[k].ref : k \in 1..Len(convs)} \cup {DefaultRef, ErrorRef}
        free == (0..(2 * Len(convs) + 2 + i)) \ used
    IN  CHOOSE r \in free : Cardinality({x \in free : x < r}) = i - 1

\* a conversation without its object identity
Content(c) == [f \in (DOMAIN c) \ {"ref"} |-> c[f]]

Contents(convs) == [i \in 1..Len(convs) |-> Content(convs[i])]

Ids(convs) == [i \in 1..Len(convs) |-> convs[i].id]

HasId(convs, id) == \E i \in 1..Len(convs) : convs[i].id = id

UniqueIds(convs) ==
    \A i, j \in 1..Len(convs) : convs[i].id = convs[j].id => i = j

----------------------------------------------------------------------------
(* The constant conversations *)

createConversation(id, name, systemPurposeId, chatModelId, t, r) ==
    [ id |-> id, name |-> name, messages |-> <<>>,
      systemPurposeId |-> systemPurposeId, chatModelId |-> chatModelId,
      cacheTokensCount |-> Absent,
      created |-> t, updated |-> t, ref |-> r ]

defaultConversations ==
    << createConversation("default", "Conversation", "Generic", defaultChatModelId, LoadTime, DefaultRef) >>

errorConversation ==
    createConversation("error-missing", "Missing Conversation", "Developer", defaultChatModelId, LoadTime, ErrorRef)

----------------------------------------------------------------------------
(* The store's handlers: the conversations array each one passes to set().  *)
(* t is the value of Date.now() during the call.                           *)

\* mutant: slice(0, 20), one entry too many is kept
addConversation_KeepsTwenty(convs, conversation) ==
    <<conversation>> \o SliceFromStart(convs, KeepPrevious + 1)

\* mutant: slice(-19), the newest entries are dropped instead of the oldest
addConversation_KeepsLast(convs, conversation) ==
    <<conversation>> \o
    SubSeq(convs, IF Len(convs) > KeepPrevious THEN Len(convs) - KeepPrevious + 1 ELSE 1, Len(convs))

addConversation(convs, conversation) ==
    <<conversation>> \o SliceFromStart(convs, KeepPrevious)

\* mutant: the filter keeps the matching conversation (=== for !==)
deleteConversation_KeepsMatching(convs, conversationId) ==
    SelectSeq(convs, LAMBDA conversation : conversation.id = conversationId)

deleteConversation(convs, conversationId) ==
    SelectSeq(convs, LAMBDA conversation : conversation.id # conversationId)

\* mutant: set({ conversations: [] })
resetConversations_Empty ==
    <<>>

resetConversations ==
    defaultConversations

\* mutant: [message, ...conversation.messages], the new message is put first
addMessage_Prepends(convs, conversationId, message, t) ==
    [ i \in 1..Len(convs) |->
        LET conversation == convs[i] IN
        IF conversation.id # conversationId
        THEN [conversation EXCEPT !.ref = NewRef(convs, i)]
        ELSE [conversation EXCEPT
                !.messages = <<message>> \o conversation.messages,
                !.cacheTokensCount = OrZero(conversation.cacheTokensCount) + OrZero(message.cacheTokensCount),
                !.updated = t,
                !.ref = NewRef(convs, i)] ]

\* mutant: the updated conversation is appended to the list instead of
\* replacing the one it was made from
addMessage_AppendsCopy(convs, conversationId, message, t) ==
    convs \o
    [ i \in 1..Len(SelectSeq(convs, LAMBDA c : c.id = conversationId)) |->
        LET conversation == SelectSeq(convs, LAMBDA c : c.id = conversationId)[i] IN
        [conversation EXCEPT
            !.messages = Append(conversation.messages, message),
            !.cacheTokensCount = OrZero(conversation.cacheTokensCount) + OrZero(message.cacheTokensCount),
            !.updated = t,
            !.ref = NewRef(convs, i)] ]

\* mutant: updated is stamped outside the conditional spread, on every conversation
addMessage_StampsAll(convs, conversationId, message, t) ==
    [ i \in 1..Len(convs) |->
        LET conversation == convs[i] IN
        IF conversation.id # conversationId
        THEN [conversation EXCEPT !.updated = t, !.ref = NewRef(convs, i)]
        ELSE [conversation EXCEPT
                !.messages = Append(conversation.messages, message),
                !.cacheTokensCount = OrZero(conversation.cacheTokensCount) + OrZero(message.cacheTokensCount),
                !.updated = t,
                !.ref = NewRef(convs, i)] ]

\* the map callback spreads every conversation into a new object literal
addMessage(convs, conversationId, message, t) ==
    [ i \in 1..Len(convs) |->
        LET conversation == convs[i] IN
        IF conversation.id # conversationId
        THEN [conversation EXCEPT !.ref = NewRef(convs, i)]
        ELSE [conversation EXCEPT
                !.messages = Append(conversation.messages, message),
                !.cacheTokensCount = OrZero(conversation.cacheTokensCount) + OrZero(message.cacheTokensCount),
                !.updated = t,
                !.ref = NewRef(convs, i)] ]

\* mutant: created is stamped together with updated
EditedMessages_StampsCreated(messages, messageId, updatedMessage, t) ==
    [ k \in 1..Len(messages) |->
        IF messages[k].id = messageId
        THEN [Spread(messages[k], updatedMessage) EXCEPT !.updated = t, !.created = t]
        ELSE messages[k] ]

\* the inner map of editMessage
EditedMessages(messages, messageId, updatedMessage, t) ==
    [ k \in 1..Len(messages) |->
        IF messages[k].id = messageId
        THEN [Spread(messages[k], updatedMessage) EXCEPT !.updated = t]
        ELSE messages[k] ]

\* mutant: the aggregate is carried over, not summed again
WithMessages_KeepsAggregate(conversation, newMessages, t, r) ==
    [conversation EXCEPT
        !.messages = newMessages,
        !.updated = t,
        !.ref = r]

\* the object literal editMessage, removeMessage and replaceMessages return for
\* the matching conversation
WithMessages(conversation, newMessages, t, r) ==
    [conversation EXCEPT
        !.messages = newMessages,
        !.cacheTokensCount = SumTokens(newMessages),
        !.updated = t,
        !.ref = r]

\* mutant: the aggregate is advanced by the payload's cacheTokensCount, the way
\* addMessage advances it, instead of being summed again
editMessage_AddsDelta(convs, conversationId, messageId, updatedMessage, t) ==
    [ i \in 1..Len(convs) |->
        LET conversation == convs[i] IN
        IF conversation.id = conversationId
        THEN [conversation EXCEPT
                !.messages = EditedMessages(conversation.messages, messageId, updatedMessage, t),
                !.cacheTokensCount =
                    OrZero(conversation.cacheTokensCount)
                    + (IF "cacheTokensCount" \in DOMAIN updatedMessage
                       THEN OrZero(updatedMessage.cacheTokensCount) ELSE 0),
                !.updated = t,
                !.ref = NewRef(convs, i)]
        ELSE conversation ]

editMessage(convs, conversationId, messageId, updatedMessage, t) ==
    [ i \in 1..Len(convs) |->
        LET conversation == convs[i] IN
        IF conversation.id = conversationId
        THEN WithMessages(conversation,
                          EditedMessages(conversation.messages, messageId, updatedMessage, t),
                          t, NewRef(convs, i))
        ELSE conversation ]

\* mutant: the conversation id is not compared, the message is removed from
\* every conversation
removeMessage_FromAll(convs, conversationId, messageId, t) ==
    [ i \in 1..Len(convs) |->
        WithMessages(convs[i],
                     SelectSeq(convs[i].messages, LAMBDA message : message.id # messageId),
                     t, NewRef(convs, i)) ]

removeMessage(convs, conversationId, messageId, t) ==
    [ i \in 1..Len(convs) |->
        LET conversation == convs[i] IN
        IF conversation.id = conversationId
        THEN WithMessages(conversation,
                          SelectSeq(conversation.messages, LAMBDA message : message.id # messageId),
                          t, NewRef(convs, i))
        ELSE conversation ]

replaceMessages(convs, conversationId, newMessages, t) ==
    [ i \in 1..Len(convs) |->
        LET conversation == convs[i] IN
        IF conversation.id = conversationId
        THEN WithMessages(conversation, newMessages, t, NewRef(convs, i))
        ELSE conversation ]

setSystemPurposeId(convs, conversationId, systemPurposeId, t) ==
    [ i \in 1..Len(convs) |->
        LET conversation == convs[i] IN
        IF conversation.id = conversationId
        THEN [conversation EXCEPT
                !.systemPurposeId = systemPurposeId,
                !.updated = t,
                !.ref = NewRef(convs, i)]
        ELSE conversation ]

setChatModelId(convs, conversationId, chatModelId, t) ==
    [ i \in 1..Len(convs) |->
        LET conversation == convs[i] IN
        IF conversation.id = conversationId
        THEN [conversation EXCEPT
                !.chatModelId = chatModelId,
                !.updated = t,
                !.ref = NewRef(convs, i)]
        ELSE conversation ]

\* a resolver that falls back to the first stored conversation, not the sentinel
useActiveConversation_First(convs, activeId) ==
    IF HasId(convs, activeId)
    THEN convs[CHOOSE i \in 1..Len(convs) :
                 /\ convs[i].id = activeId
                 /\ \A j \in 1..(i - 1) : convs[j].id # activeId]
    ELSE IF Len(convs) > 0 THEN convs[1] ELSE errorConversation

\* conversations.find(c => c.id === activeConversationId) || errorConversation
useActiveConversation(convs, activeId) ==
    IF HasId(convs, activeId)
    THEN convs[CHOOSE i \in 1..Len(convs) :
                 /\ convs[i].id = activeId
                 /\ \A j \in 1..(i - 1) : convs[j].id # activeId]
    ELSE errorConversation

----------------------------------------------------------------------------
(* The arguments the callers pass *)

ConvIds == {"default", "c1"}

MsgIds == {"m1", "m2"}

\* the purpose and the model a caller selects
SystemPurposeIds == {"Developer"}

ChatModelIds == {"gpt-4"}

\* a DMessage a caller builds at time t
NewMessage(id, tokens, t) ==
    [ id |-> id, text |-> "a", sender |-> "You", avatar |-> Null,
      typing |-> FALSE, role |-> "user",
      cacheTokensCount |-> tokens, created |-> t, updated |-> Null ]

InputMessages(t) ==
    { NewMessage("m1", 1, t), NewMessage("m1", Absent, t), NewMessage("m2", 1, t) }

\* message lists for replaceMessages, one of them with a duplicate message id
InputMessageLists(t) ==
    { <<>>,
      << NewMessage("m1", 1, t) >>,
      << NewMessage("m1", 1, t), NewMessage("m1", Absent, t) >> }

\* Partial<DMessage> payloads for editMessage
Payloads ==
    << [text |-> "b"],
       [cacheTokensCount |-> 2],
       [id |-> "m2", created |-> MaxClock + 1, cacheTokensCount |-> Absent] >>

\* a DConversation a caller builds at time t as a new object r: an empty one,
\* or one that already holds a message and has no cacheTokensCount set
InputConversations(t, r) ==
    { [ createConversation(id, "Conversation", "Generic", defaultChatModelId, t, r)
          EXCEPT !.messages = messages ] :
        id \in ConvIds,
        messages \in { <<>>, << NewMessage("m1", 1, t) >> } }

\* the id of the n-th conversation of the scenario c1, c2, ...
ScenarioId(n) == "c" \o ToString(n)

----------------------------------------------------------------------------
(* The state machine *)

Init ==
    /\ conversations = defaultConversations
    /\ activeConversationId = defaultConversations[1].id
    /\ now = LoadTime
    /\ boundId = useActiveConversation(defaultConversations, defaultConversations[1].id).id
    /\ orphaned = FALSE
    /\ added = 0
    /\ ops = 0
    /\ lastOp = [op |-> "init", conversationId |-> "", messageId |-> "", arg |-> <<>>]
    /\ prev = [conversations |-> defaultConversations,
               activeConversationId |-> defaultConversations[1].id]

\* set(partial): the new store content, with the record of the call
Set(op, conversationId, messageId, arg, newConversations, newActiveId) ==
    /\ conversations' = newConversations
    /\ activeConversationId' = newActiveId
    /\ lastOp' = [op |-> op, conversationId |-> conversationId,
                  messageId |-> messageId, arg |-> arg]
    /\ prev' = [conversations |-> conversations,
                activeConversationId |-> activeConversationId]
    /\ orphaned' =
          IF op = "setActiveConversationId" THEN FALSE
          ELSE IF \/ /\ op = "deleteConversation"
                      /\ conversationId = activeConversationId
                      /\ HasId(conversations, activeConversationId)
                  \/ /\ op = "resetConversations"
                      /\ activeConversationId # defaultConversations[1].id
               THEN TRUE
               ELSE orphaned
    /\ UNCHANGED <<now, boundId>>

Tick ==
    /\ now < MaxClock
    /\ now' = now + 1
    /\ UNCHANGED <<conversations, activeConversationId, boundId, orphaned, added, ops, lastOp, prev>>

\* an addConversation that also makes the new conversation the active one
AddConversation_Activates ==
    /\ ops < MaxOps
    /\ \E conversation \in InputConversations(now, NewRef(conversations, 1)) :
          Set("addConversation", conversation.id, "", conversation,
              addConversation(conversations, conversation), conversation.id)
    /\ ops' = ops + 1
    /\ UNCHANGED added

AddConversation ==
    /\ ops < MaxOps
    /\ \E conversation \in InputConversations(now, NewRef(conversations, 1)) :
          Set("addConversation", conversation.id, "", conversation,
              addConversation(conversations, conversation), activeConversationId)
    /\ ops' = ops + 1
    /\ UNCHANGED added

DeleteConversation ==
    /\ ops < MaxOps
    /\ \E conversationId \in ConvIds :
          Set("deleteConversation", conversationId, "", <<>>,
              deleteConversation(conversations, conversationId), activeConversationId)
    /\ ops' = ops + 1
    /\ UNCHANGED added

ResetConversations ==
    /\ ops < MaxOps
    /\ Set("resetConversations", "", "", <<>>, resetConversations, activeConversationId)
    /\ ops' = ops + 1
    /\ UNCHANGED added

\* mutant: the id is taken only when a conversation has it
SetActiveConversationId_Validates ==
    /\ ops < MaxOps
    /\ \E conversationId \in ConvIds :
          Set("setActiveConversationId", conversationId, "", <<>>,
              conversations,
              IF HasId(conversations, conversationId)
              THEN conversationId ELSE activeConversationId)
    /\ ops' = ops + 1
    /\ UNCHANGED added

SetActiveConversationId ==
    /\ ops < MaxOps
    /\ \E conversationId \in ConvIds :
          Set("setActiveConversationId", conversationId, "", <<>>,
              conversations, conversationId)
    /\ ops' = ops + 1
    /\ UNCHANGED added

AddMessage ==
    /\ ops < MaxOps
    /\ \E conversationId \in ConvIds, message \in InputMessages(now) :
          Set("addMessage", conversationId, message.id, message,
              addMessage(conversations, conversationId, message, now),
              activeConversationId)
    /\ ops' = ops + 1
    /\ UNCHANGED added

EditMessage ==
    /\ ops < MaxOps
    /\ \E conversationId \in ConvIds, messageId \in MsgIds, p \in 1..Len(Payloads) :
          Set("editMessage", conversationId, messageId, Payloads[p],
              editMessage(conversations, conversationId, messageId, Payloads[p], now),
              activeConversationId)
    /\ ops' = ops + 1
    /\ UNCHANGED added

RemoveMessage ==
    /\ ops < MaxOps
    /\ \E conversationId \in ConvIds, messageId \in MsgIds :
          Set("removeMessage", conversationId, messageId, <<>>,
              removeMessage(conversations, conversationId, messageId, now),
              activeConversationId)
    /\ ops' = ops + 1
    /\ UNCHANGED added

ReplaceMessages ==
    /\ ops < MaxOps
    /\ \E conversationId \in ConvIds, newMessages \in InputMessageLists(now) :
          Set("replaceMessages", conversationId, "", newMessages,
              replaceMessages(conversations, conversationId, newMessages, now),
              activeConversationId)
    /\ ops' = ops + 1
    /\ UNCHANGED added

SetSystemPurposeId ==
    /\ ops < MaxOps
    /\ \E conversationId \in ConvIds, systemPurposeId \in SystemPurposeIds :
          Set("setSystemPurposeId", conversationId, "", systemPurposeId,
              setSystemPurposeId(conversations, conversationId, systemPurposeId, now),
              activeConversationId)
    /\ ops' = ops + 1
    /\ UNCHANGED added

SetChatModelId ==
    /\ ops < MaxOps
    /\ \E conversationId \in ConvIds, chatModelId \in ChatModelIds :
          Set("setChatModelId", conversationId, "", chatModelId,
              setChatModelId(conversations, conversationId, chatModelId, now),
              activeConversationId)
    /\ ops' = ops + 1
    /\ UNCHANGED added

Next ==
    \/ Tick
    \/ AddConversation
    \/ DeleteConversation
    \/ ResetConversations
    \/ SetActiveConversationId
    \/ AddMessage
    \/ EditMessage
    \/ RemoveMessage
    \/ ReplaceMessages
    \/ SetSystemPurposeId
    \/ SetChatModelId

Spec == Init /\ [][Next]_vars

----------------------------------------------------------------------------
(* The eviction scenario: addConversation is called with the new, empty    *)
(* conversations c1, c2, ... in this order, and nothing else is called.    *)

AddScenarioConversation ==
    /\ added < MaxAdds
    /\ LET conversation ==
             createConversation(ScenarioId(added + 1), "Conversation", "Generic",
                                defaultChatModelId, now, NewRef(conversations, 1))
       IN  Set("addConversation", conversation.id, "", conversation,
               addConversation(conversations, conversation), activeConversationId)
    /\ added' = added + 1
    /\ UNCHANGED ops

NextScenario ==
    \/ Tick
    \/ AddScenarioConversation

SpecScenario == Init /\ [][NextScenario]_vars

----------------------------------------------------------------------------
(* The component that uses useActiveConfiguration: a render evaluates the   *)
(* hook, and the two callbacks it returns hold the activeConversation.id of *)
(* that render until the next one.  A caller may use the callbacks it has  *)
(* before the render that follows a store change has run.                  *)

\* a caller adds an empty conversation whose id is the sentinel's id
AddConversationWithSentinelId ==
    /\ ops < MaxOps
    /\ LET conversation ==
             createConversation(errorConversation.id, "Conversation", "Generic",
                                defaultChatModelId, now, NewRef(conversations, 1))
       IN  Set("addConversation", conversation.id, "", conversation,
               addConversation(conversations, conversation), activeConversationId)
    /\ ops' = ops + 1
    /\ UNCHANGED added

\* the component renders: useActiveConversation() is evaluated and useCallback
\* keeps or replaces the callbacks by the dependency activeConversation.id
Render ==
    /\ boundId' = useActiveConversation(conversations, activeConversationId).id
    /\ UNCHANGED <<conversations, activeConversationId, now, orphaned, added, ops, lastOp, prev>>

\* the callback setSystemPurposeId of useActiveConfiguration
ActiveSetSystemPurposeId ==
    /\ ops < MaxOps
    /\ \E systemPurposeId \in SystemPurposeIds :
          Set("useActiveConfiguration.setSystemPurposeId", boundId, "", systemPurposeId,
              setSystemPurposeId(conversations, boundId, systemPurposeId, now),
              activeConversationId)
    /\ ops' = ops + 1
    /\ UNCHANGED added

\* the callback setChatModelId of useActiveConfiguration
ActiveSetChatModelId ==
    /\ ops < MaxOps
    /\ \E chatModelId \in ChatModelIds :
          Set("useActiveConfiguration.setChatModelId", boundId, "", chatModelId,
              setChatModelId(conversations, boundId, chatModelId, now),
              activeConversationId)
    /\ ops' = ops + 1
    /\ UNCHANGED added

NextActiveConfiguration ==
    \/ Tick
    \/ AddConversation
    \/ AddConversationWithSentinelId
    \/ DeleteConversation
    \/ SetActiveConversationId
    \/ Render
    \/ ActiveSetSystemPurposeId
    \/ ActiveSetChatModelId

SpecActiveConfiguration == Init /\ [][NextActiveConfiguration]_vars

----------------------------------------------------------------------------
(* Properties *)

MessageOps == {"addMessage", "editMessage", "removeMessage", "replaceMessages"}

PerConversationOps == MessageOps \cup {"setSystemPurposeId", "setChatModelId"}

\* the conversations of convs with the id conversationId
Matching(convs, conversationId) ==
    { convs[i] : i \in { k \in 1..Len(convs) : convs[k].id = conversationId } }

HasMessage(conversation, messageId) ==
    \E k \in 1..Len(conversation.messages) : conversation.messages[k].id = messageId

\* conversations without object identities and without the updated timestamps
\* of the conversations and of their messages
WithoutUpdated(convs) ==
    [ i \in 1..Len(convs) |->
        [ [ f \in (DOMAIN convs[i]) \ {"ref", "updated"} |-> convs[i][f] ]
            EXCEPT !.messages =
                [ k \in 1..Len(convs[i].messages) |->
                    [ f \in (DOMAIN convs[i].messages[k]) \ {"updated"} |->
                        convs[i].messages[k][f] ] ] ] ]

\* C1: right after addMessage, editMessage, removeMessage or replaceMessages,
\* every conversation with the call's conversationId has a cacheTokensCount
\* equal to the sum of its messages' cacheTokensCount (absent counted as 0).
C1_AggregateExactAfterMessageOp ==
    lastOp.op \in MessageOps =>
        \A c \in Matching(conversations, lastOp.conversationId) :
            OrZero(c.cacheTokensCount) = SumTokens(c.messages)

\* C2: in every reachable state every conversation's cacheTokensCount (absent
\* counted as 0) equals the sum of its messages' cacheTokensCount.
C2_AggregateExactAlways ==
    \A i \in 1..Len(conversations) :
        OrZero(conversations[i].cacheTokensCount) = SumTokens(conversations[i].messages)

\* C3: the list never holds more than 20 conversations, and right after
\* addConversation(c) its first element is c.
C3_AtMostTwentyNewestFirst ==
    /\ Len(conversations) <= 20
    /\ lastOp.op = "addConversation" => conversations[1] = lastOp.arg

\* C3 witness: addConversation was called on a full list of 20
C3_AddedToFullList ==
    /\ lastOp.op = "addConversation"
    /\ Len(prev.conversations) = 20
    /\ Len(conversations) = 20
    /\ conversations[1] = lastOp.arg

\* C4: addConversation(c) leaves c followed by the first 19 entries of the
\* previous list in their order; after n >= 20 calls with the ids c1..cn the
\* list is cn, c(n-1), ..., c(n-19).
C4_NewestFirstOldestEvicted ==
    /\ lastOp.op = "addConversation" =>
          conversations =
              <<lastOp.arg>> \o
              SubSeq(prev.conversations, 1, Min(19, Len(prev.conversations)))
    /\ added >= 20 =>
          Ids(conversations) = [i \in 1..20 |-> ScenarioId(added + 1 - i)]

\* C4 witness: c1..c25 were added and the list is c25, c24, ..., c6
C4_TwentyFiveAdded ==
    /\ added = 25
    /\ Len(conversations) = 20
    /\ conversations[1].id = "c25"
    /\ conversations[20].id = "c6"
    /\ \A i \in 1..20 : conversations[i].id = ScenarioId(26 - i)

\* C5 as stated: in every reachable state no two conversations have the same id.
C5_IdsUnique ==
    UniqueIds(conversations)

\* C5 as amended: an operation leaves the ids unique when they were unique
\* before it, unless it is addConversation called with an id that a
\* conversation of the list already has.
C5_IdsUniqueWhileAddedIdsAreFresh ==
    ( /\ UniqueIds(prev.conversations)
      /\ ~ ( /\ lastOp.op = "addConversation"
             /\ HasId(prev.conversations, lastOp.conversationId) ) )
    => UniqueIds(conversations)

\* C5 witness: a conversation with a new id was added to a non-empty list
C5_FreshIdAdded ==
    /\ lastOp.op = "addConversation"
    /\ prev.conversations # <<>>
    /\ ~ HasId(prev.conversations, lastOp.conversationId)
    /\ UniqueIds(conversations)

\* C6: after deleteConversation(id) no conversation has that id, and with
\* activeConversationId = id the resolver returns the sentinel; the resolver
\* returns the sentinel exactly when no conversation has the active id, and
\* otherwise a conversation of the list whose id is the active id.
C6_DeletedResolvesToSentinel ==
    LET active == useActiveConversation(conversations, activeConversationId) IN
    /\ lastOp.op = "deleteConversation" =>
          /\ ~ HasId(conversations, lastOp.conversationId)
          /\ activeConversationId = lastOp.conversationId => active = errorConversation
    /\ active = errorConversation <=> ~ HasId(conversations, activeConversationId)
    /\ HasId(conversations, activeConversationId) =>
          /\ active.id = activeConversationId
          /\ \E i \in 1..Len(conversations) : conversations[i] = active

\* C6 witness: the active conversation was in the list and has been deleted
C6_ActiveConversationDeleted ==
    /\ lastOp.op = "deleteConversation"
    /\ HasId(prev.conversations, lastOp.conversationId)
    /\ activeConversationId = lastOp.conversationId
    /\ useActiveConversation(conversations, activeConversationId).id = "error-missing"

\* C7: right after editMessage(conversationId, messageId, payload), the same
\* call again changes nothing but updated timestamps.
C7_EditMessageIdempotent ==
    lastOp.op = "editMessage" =>
        WithoutUpdated(editMessage(conversations, lastOp.conversationId,
                                   lastOp.messageId, lastOp.arg, now))
        = WithoutUpdated(conversations)

\* C7 witness: the edit hit two messages with the same id, with a payload
\* that sets id and cacheTokensCount
C7_EditedDuplicateIds ==
    /\ lastOp.op = "editMessage"
    /\ {"id", "cacheTokensCount"} \subseteq DOMAIN lastOp.arg
    /\ \E c \in Matching(prev.conversations, lastOp.conversationId) :
          /\ Len(c.messages) >= 2
          /\ c.messages[1].id = lastOp.messageId
          /\ c.messages[2].id = lastOp.messageId

\* C8 as stated: resetConversations() leaves exactly one conversation, with
\* no messages and cacheTokensCount 0.
C8_ResetLeavesCountZero ==
    lastOp.op = "resetConversations" =>
        /\ Len(conversations) = 1
        /\ conversations[1].messages = <<>>
        /\ conversations[1].cacheTokensCount = 0

\* C8 as amended: resetConversations() leaves exactly one conversation, with
\* no messages and no cacheTokensCount set (which reads as 0 under || 0).
C8_ResetLeavesOneEmptyConversation ==
    lastOp.op = "resetConversations" =>
        /\ Len(conversations) = 1
        /\ conversations[1].messages = <<>>
        /\ conversations[1].cacheTokensCount = Absent
        /\ OrZero(conversations[1].cacheTokensCount) = 0

\* C8 witness: reset was called when 'default' held messages beside another
\* conversation
C8_ResetAfterMutations ==
    /\ lastOp.op = "resetConversations"
    /\ Len(prev.conversations) >= 2
    /\ \E c \in Matching(prev.conversations, "default") : c.messages # <<>>

\* C9: a call of deleteConversation, setSystemPurposeId, setChatModelId,
\* addMessage, editMessage, removeMessage or replaceMessages whose
\* conversationId matches no conversation leaves every conversation's fields,
\* the order of the list and activeConversationId as they were.
C9_MissingConversationNoOp ==
    ( /\ lastOp.op \in PerConversationOps \cup {"deleteConversation"}
      /\ ~ HasId(prev.conversations, lastOp.conversationId) )
    => /\ Contents(conversations) = Contents(prev.conversations)
       /\ activeConversationId = prev.activeConversationId

\* C9 witness: addMessage was called on a non-empty list with an id no
\* conversation has, at a time later than the conversations' last update
C9_AddMessageToMissingConversation ==
    /\ lastOp.op = "addMessage"
    /\ prev.conversations # <<>>
    /\ ~ HasId(prev.conversations, lastOp.conversationId)
    /\ \A i \in 1..Len(prev.conversations) : prev.conversations[i].updated < now

\* C10: editMessage or removeMessage with a conversationId that matches and a
\* messageId that matches none of that conversation's messages leaves every
\* conversation's fields as they were.
C10_MissingMessageNoOp ==
    ( /\ lastOp.op \in {"editMessage", "removeMessage"}
      /\ HasId(prev.conversations, lastOp.conversationId)
      /\ \A c \in Matching(prev.conversations, lastOp.conversationId) :
            ~ HasMessage(c, lastOp.messageId) )
    => Contents(conversations) = Contents(prev.conversations)

\* C11: a per-conversation mutation on conversationId X leaves every
\* conversation whose id is not X the same object as before, and only the
\* conversations with id X are new objects.
C11_OthersKeepIdentity ==
    lastOp.op \in PerConversationOps =>
        /\ Len(conversations) = Len(prev.conversations)
        /\ \A i \in 1..Len(prev.conversations) :
              IF prev.conversations[i].id # lastOp.conversationId
              THEN conversations[i].ref = prev.conversations[i].ref
              ELSE conversations[i].ref # prev.conversations[i].ref

\* C12: setActiveConversationId(id) makes id the active id, whether or not a
\* conversation has it, and leaves the list as it was (the same objects).
C12_SetActiveUnconditional ==
    lastOp.op = "setActiveConversationId" =>
        /\ activeConversationId = lastOp.conversationId
        /\ conversations = prev.conversations

\* C12 witness: the active id was changed to an id that no conversation has
C12_SetActiveToMissingId ==
    /\ lastOp.op = "setActiveConversationId"
    /\ prev.activeConversationId # lastOp.conversationId
    /\ prev.conversations # <<>>
    /\ ~ HasId(conversations, lastOp.conversationId)
    /\ activeConversationId = lastOp.conversationId

\* C15: a per-conversation mutation on conversationId X keeps the length and
\* the order of the list, the id and created of every conversation, and every
\* field of the conversations whose id is not X.
C15_OtherConversationsUntouched ==
    lastOp.op \in PerConversationOps =>
        /\ Len(conversations) = Len(prev.conversations)
        /\ \A i \in 1..Len(prev.conversations) :
              /\ conversations[i].id = prev.conversations[i].id
              /\ conversations[i].created = prev.conversations[i].created
              /\ prev.conversations[i].id # lastOp.conversationId =>
                    Content(conversations[i]) = Content(prev.conversations[i])

\* C15 witness: of two conversations that hold messages, the one with the
\* call's id was changed
C15_OneOfTwoChanged ==
    /\ lastOp.op \in PerConversationOps
    /\ \E i, j \in 1..Len(prev.conversations) :
          /\ prev.conversations[i].id = lastOp.conversationId
          /\ prev.conversations[j].id # lastOp.conversationId
          /\ prev.conversations[j].messages # <<>>
          /\ conversations[i].messages # prev.conversations[i].messages

\* a is b with some elements left out, the others in b's order
RECURSIVE IsSubsequence(_, _)
IsSubsequence(a, b) ==
    IF a = <<>> THEN TRUE
    ELSE IF b = <<>> THEN FALSE
    ELSE IF Head(a) = Head(b) /\ IsSubsequence(Tail(a), Tail(b)) THEN TRUE
    ELSE IsSubsequence(a, Tail(b))

\* C16: in the conversations with the call's id, addMessage puts the new
\* message last behind the earlier ones; editMessage keeps the number of
\* messages, every message with another id as it was and every edited message
\* at its place (the fields the payload does not set stay, but updated);
\* removeMessage leaves the messages with another id, in their order;
\* setSystemPurposeId and setChatModelId leave the message list as it was.
C16_MessagesNeverReordered ==
    lastOp.op \in PerConversationOps =>
        \A i \in 1..Len(prev.conversations) :
            prev.conversations[i].id = lastOp.conversationId =>
                LET old == prev.conversations[i].messages
                    new == conversations[i].messages
                IN  /\ lastOp.op = "addMessage" => new = Append(old, lastOp.arg)
                    /\ lastOp.op = "editMessage" =>
                          /\ Len(new) = Len(old)
                          /\ \A k \in 1..Len(old) :
                                IF old[k].id # lastOp.messageId
                                THEN new[k] = old[k]
                                ELSE \A f \in (DOMAIN old[k]) \ ((DOMAIN lastOp.arg) \cup {"updated"}) :
                                        new[k][f] = old[k][f]
                    /\ lastOp.op = "removeMessage" =>
                          /\ IsSubsequence(new, old)
                          /\ \A k \in 1..Len(new) : new[k].id # lastOp.messageId
                          /\ Len(new) = Cardinality({k \in 1..Len(old) : old[k].id # lastOp.messageId})
                    /\ lastOp.op \in {"setSystemPurposeId", "setChatModelId"} => new = old

\* C16 witness: removeMessage took the last of three messages and left the two
\* different ones before it
C16_RemovedOneOfThree ==
    /\ lastOp.op = "removeMessage"
    /\ \E i \in 1..Len(prev.conversations) :
          /\ prev.conversations[i].id = lastOp.conversationId
          /\ Len(prev.conversations[i].messages) = 3
          /\ Len(conversations[i].messages) = 2
          /\ conversations[i].messages[1] # conversations[i].messages[2]

\* the messages at every position of every conversation have the id and the
\* created timestamp they had before the last operation
SameIdsAndCreated ==
    /\ Len(conversations) = Len(prev.conversations)
    /\ \A i \in 1..Len(prev.conversations) :
          /\ Len(conversations[i].messages) = Len(prev.conversations[i].messages)
          /\ \A k \in 1..Len(prev.conversations[i].messages) :
                /\ conversations[i].messages[k].id = prev.conversations[i].messages[k].id
                /\ conversations[i].messages[k].created = prev.conversations[i].messages[k].created

\* C17 as stated: after editMessage with any payload, the message at each
\* position has the id and the created value it had before.
C17_IdAndCreatedImmutable ==
    lastOp.op = "editMessage" => SameIdsAndCreated

\* C17 as amended: after editMessage with a payload that sets neither id nor
\* created, the message at each position has the id and the created value it
\* had before.
C17_IdAndCreatedKeptUnlessInPayload ==
    ( /\ lastOp.op = "editMessage"
      /\ {"id", "created"} \cap DOMAIN lastOp.arg = {} )
    => SameIdsAndCreated

\* C17 witness: a payload without id and created changed a message, at a time
\* later than the message's creation
C17_EditedWithoutIdOrCreated ==
    /\ lastOp.op = "editMessage"
    /\ {"id", "created"} \cap DOMAIN lastOp.arg = {}
    /\ \E i \in 1..Len(prev.conversations) :
          /\ prev.conversations[i].id = lastOp.conversationId
          /\ \E k \in 1..Len(prev.conversations[i].messages) :
                /\ prev.conversations[i].messages[k].id = lastOp.messageId
                /\ prev.conversations[i].messages[k].created < now
                /\ conversations[i].messages[k].updated = now

\* C18: in the conversations with the call's id, editMessage, removeMessage
\* and replaceMessages leave cacheTokensCount equal to the sum over the
\* resulting messages whatever it was before; addMessage leaves the previous
\* value (absent as 0) plus the new message's count (absent as 0), which is
\* the sum exactly when the previous value was the sum of the previous messages.
C18_RecomputeVersusIncrement ==
    \A i \in 1..Len(prev.conversations) :
        ( /\ lastOp.op \in MessageOps
          /\ prev.conversations[i].id = lastOp.conversationId )
        => LET before == prev.conversations[i]
               after == conversations[i]
           IN  /\ lastOp.op # "addMessage" =>
                     after.cacheTokensCount = SumTokens(after.messages)
               /\ lastOp.op = "addMessage" =>
                     /\ after.cacheTokensCount =
                           OrZero(before.cacheTokensCount) + OrZero(lastOp.arg.cacheTokensCount)
                     /\ after.cacheTokensCount = SumTokens(after.messages)
                           <=> OrZero(before.cacheTokensCount) = SumTokens(before.messages)

\* C18 witness: editMessage, removeMessage or replaceMessages met a stale
\* aggregate and left messages behind
C18_StaleAggregateRepaired ==
    /\ lastOp.op \in MessageOps \ {"addMessage"}
    /\ \E i \in 1..Len(prev.conversations) :
          /\ prev.conversations[i].id = lastOp.conversationId
          /\ OrZero(prev.conversations[i].cacheTokensCount)
                # SumTokens(prev.conversations[i].messages)
          /\ conversations[i].messages # <<>>
          /\ conversations[i].cacheTokensCount = SumTokens(conversations[i].messages)

ActiveConfigurationOps ==
    {"useActiveConfiguration.setSystemPurposeId", "useActiveConfiguration.setChatModelId"}

\* the field a callback of useActiveConfiguration writes
ConfiguredField(op, conversation) ==
    IF op = "useActiveConfiguration.setSystemPurposeId"
    THEN conversation.systemPurposeId
    ELSE conversation.chatModelId

\* the last callback wrote its field on the conversations with this id and
\* left every other conversation as it was
ConfiguredOnly(id) ==
    /\ Len(conversations) = Len(prev.conversations)
    /\ \A i \in 1..Len(conversations) :
          IF prev.conversations[i].id = id
          THEN /\ conversations[i].id = id
               /\ ConfiguredField(lastOp.op, conversations[i]) = lastOp.arg
          ELSE conversations[i] = prev.conversations[i]

\* the callback acted on what the active id resolved to when it was called:
\* on the active conversation when that is in the list, and on nothing when
\* the active id matches none and no stored conversation is 'error-missing'
ConfiguredTheActive ==
    /\ HasId(prev.conversations, prev.activeConversationId) =>
          /\ lastOp.conversationId = prev.activeConversationId
          /\ ConfiguredOnly(prev.activeConversationId)
    /\ ( /\ ~ HasId(prev.conversations, prev.activeConversationId)
         /\ ~ HasId(prev.conversations, "error-missing") ) =>
          /\ lastOp.conversationId = "error-missing"
          /\ conversations = prev.conversations

\* C19 as stated: a callback of the active-configuration accessor always acts
\* on the conversation the active id resolves to at the time of the call: on
\* conversation a only after setActiveConversationId(a) with a in the list, and
\* on nothing (target 'error-missing') when the active id matches none.
C19_SettersActOnActive ==
    lastOp.op \in ActiveConfigurationOps => ConfiguredTheActive

\* C19 amended: a callback acts on the conversation whose id the accessor
\* resolved when it was last evaluated, and on that one only; when that is
\* what the active id resolves to at the call (the accessor was evaluated after
\* the last change of the active id and of the list), it is the active
\* conversation, or nothing when the active id matches none and no stored
\* conversation is 'error-missing'.
C19_SettersActOnRenderedActive ==
    lastOp.op \in ActiveConfigurationOps =>
        /\ ConfiguredOnly(lastOp.conversationId)
        /\ activeConversationId = prev.activeConversationId
        /\ lastOp.conversationId =
             useActiveConversation(prev.conversations, prev.activeConversationId).id
           => ConfiguredTheActive

\* C19 witness: after setActiveConversationId(a) and a render, a callback
\* changed the purpose of a and of no other of the two stored conversations
C19_ConfiguredActiveOfTwo ==
    /\ lastOp.op = "useActiveConfiguration.setSystemPurposeId"
    /\ Len(prev.conversations) = 2
    /\ prev.activeConversationId # "default"
    /\ lastOp.conversationId = prev.activeConversationId
    /\ \E i \in 1..2 :
          /\ prev.conversations[i].id = prev.activeConversationId
          /\ prev.conversations[i].systemPurposeId # lastOp.arg
          /\ conversations[i].systemPurposeId = lastOp.arg

\* the handlers that write activeConversationId
ActiveIdOps == {"init", "setActiveConversationId"}

\* every handler but setActiveConversationId leaves activeConversationId as it
\* was, and right after the active conversation is deleted, or reset away, the
\* active id resolves to the sentinel
ActiveIdKeptAndOrphaned ==
    /\ lastOp.op \notin ActiveIdOps => activeConversationId = prev.activeConversationId
    /\ ( /\ lastOp.op = "deleteConversation"
         /\ lastOp.conversationId = prev.activeConversationId ) =>
          useActiveConversation(conversations, activeConversationId) = errorConversation
    /\ ( /\ lastOp.op = "resetConversations"
         /\ prev.activeConversationId # "default" ) =>
          useActiveConversation(conversations, activeConversationId) = errorConversation

\* C20 as stated: only setActiveConversationId changes activeConversationId,
\* and once the active conversation is deleted, or reset away with an active
\* id other than 'default', the active id resolves to the sentinel until
\* setActiveConversationId is called again.
C20_DanglesUntilSetAgain ==
    /\ ActiveIdKeptAndOrphaned
    /\ orphaned => useActiveConversation(conversations, activeConversationId) = errorConversation

\* C20 amended: only setActiveConversationId changes activeConversationId, the
\* active id resolves to the sentinel right after the active conversation is
\* deleted or reset away, and an active id that matches no conversation keeps
\* resolving to the sentinel until it is set again, or addConversation adds a
\* conversation with that id, or resetConversations runs while it is 'default'.
C20_DanglesUntilSetOrIdReturns ==
    /\ ActiveIdKeptAndOrphaned
    /\ ( /\ ~ HasId(prev.conversations, prev.activeConversationId)
         /\ lastOp.op \notin ActiveIdOps
         /\ ~ ( /\ lastOp.op = "addConversation"
                /\ lastOp.conversationId = prev.activeConversationId )
         /\ ~ ( /\ lastOp.op = "resetConversations"
                /\ prev.activeConversationId = "default" ) ) =>
          /\ ~ HasId(conversations, activeConversationId)
          /\ useActiveConversation(conversations, activeConversationId) = errorConversation

\* C20 witness: the active conversation was deleted, and a later handler other
\* than setActiveConversationId has run with the active id still dangling
C20_StillDanglingAfterAnotherOp ==
    /\ orphaned
    /\ lastOp.op \notin ActiveIdOps
    /\ ops >= 2
    /\ ~ HasId(prev.conversations, prev.activeConversationId)
    /\ Len(conversations) > 0
    /\ activeConversationId = prev.activeConversationId
    /\ useActiveConversation(conversations, activeConversationId) = errorConversation

====
